---------------------------- MODULE Spec2Model ----------------------------
(***************************************************************************)
(* A model of src/fastallocator.h: the fixed-size block pool               *)
(* FixedAllocator<chunkSize> and the allocator-aware doubly-linked         *)
(* List<T, Allocator>.                                                     *)
(*                                                                         *)
(* Pointers.  A block of a pool is the pair <<region, byte offset>>, the   *)
(* region being the base pointer ::operator new returned for it.  A list   *)
(* node is an address in Addr; Null is nullptr.                            *)
(***************************************************************************)
EXTENDS Integers, Sequences, FiniteSets, Bags, TLC

(***************************************************************************)
(* Bounds of the model.                                                    *)
(***************************************************************************)
\* the template argument chunkSize of the pool that is modelled
ChunkSize == 8
\* SpecPool: blocks cut from regions, and length of the free list
MaxCut == 34
MaxReturned == 2
\* SpecGrowth: the same pool, driven far enough to grow twice
MaxCutGrowth == 97
MaxReturnedGrowth == 1
\* Spec: elements of the one list
MaxSize == 3
\* SpecCopy: elements of each of the two lists
MaxCopySize == 2
\* node addresses of the heap
NumAddrs == 8
\* SpecIter: elements of the one list, and the count given to List(count)
MaxIterSize == 3
MaxInitial == 2
\* SpecSub: elements of each of the two lists
MaxSubSize == 3
\* SpecFast: the largest n of allocate(n), and the allocations held at once
MaxCount == 2
MaxHeld == 2

(***************************************************************************)
(* Program constants.                                                      *)
(***************************************************************************)
\* size_t capacity_ = 32;
InitialCapacity == 32

\* static const size_t maxSize = 32;
maxSize == 32
\* sizeof(Node) of a List of 8-byte elements, with 8-byte pointers
NodeSize == 24

Null == 0
Addr == 1..NumAddrs
\* sizeof(T) of the element types FastAllocator<T> is used with in SpecFast
ElemSizes == {ChunkSize, maxSize, maxSize + 1}
\* the template arguments FixedAllocator<chunkSize> may be instantiated with
ChunkSizes == ElemSizes \cup {NodeSize}
\* What bounds the calls of a specification: the elements a list may hold
\* (cap), the element values pushed (vals), and how ::operator new chooses:
\* it returns one of the k lowest unused addresses.  Spec lets it choose
\* between two; SpecCopy, with two lists in the heap, takes the lowest.
SpecBounds == [cap |-> MaxSize, k |-> 2, vals |-> {1, 2, 3}]
CopyBounds == [cap |-> MaxCopySize, k |-> 1, vals |-> {1, 2}]
SubBounds == [cap |-> MaxSubSize, k |-> 1, vals |-> {1, 2}]
IterBounds == [cap |-> MaxIterSize, k |-> 1, vals |-> {1, 2}]
\* the content of storage that holds no constructed element
NoElem == 0
\* a value-initialized element: what construct(node_allocator_, newbie)
\* without a value leaves in elem_, for an arithmetic T
DefaultElem == 0
ListIds == {"a", "b"}

VARIABLES
    \* FixedAllocator<ChunkSize>
    capacity_,      \* capacity, in blocks, of the latest region
    size_,          \* blocks already cut from the latest region (the cursor)
    chunks_,        \* the regions owned, oldest first
    returned_,      \* the free list
    region_bytes,   \* the heap: bytes ::operator new gave each region
    \* what the pool's client holds
    outstanding,    \* bag of the blocks issued and not yet released
    released,       \* the blocks released and not reissued since, oldest first
    last_op,        \* the latest call on the pool
    \* the heap of list nodes (std::allocator<Node>)
    allocated,      \* node addresses in use
    next,           \* Node::next of each address
    prev,           \* Node::prev of each address
    elem_,          \* Node::elem_ of each address
    \* List<T> objects
    lst,            \* per list: size_, begin_, end_; its lifetime: alive, ended
    net,            \* per list: insertions minus removals that removed a node
    content,        \* per list: the sequence of values its caller expects
    call,           \* the latest public call: op, l, pos, val and its result ret
    \* FastAllocator<T> and the process it runs in
    allocator_,     \* per chunkSize: FixedAllocator<chunkSize>::allocator_
    heap,           \* what ::operator new gave and ::operator delete has not taken
    held,           \* what the client of FastAllocator holds: sizeof(T), n, ptr
    fcall,          \* the latest call on a FastAllocator
    running         \* the process has not ended

poolVars == <<capacity_, size_, chunks_, returned_, region_bytes,
              outstanding, released, last_op>>

listVars == <<allocated, next, prev, elem_, lst, net, content, call>>

fastVars == <<allocator_, heap, held, fcall, running>>

vars == <<capacity_, size_, chunks_, returned_, region_bytes,
          outstanding, released, last_op,
          allocated, next, prev, elem_, lst, net, content, call,
          allocator_, heap, held, fcall, running>>

Last(s) == s[Len(s)]
Front(s) == SubSeq(s, 1, Len(s) - 1)
Range(s) == {s[i] : i \in 1..Len(s)}
Rev(s) == [i \in 1..Len(s) |-> s[Len(s) + 1 - i]]
\* s with x put before its i-th element (at the end when i = Len(s) + 1)
InsertAt(s, i, x) == SubSeq(s, 1, i - 1) \o <<x>> \o SubSeq(s, i, Len(s))
\* s without its i-th element
RemoveAt(s, i) == SubSeq(s, 1, i - 1) \o SubSeq(s, i + 1, Len(s))
\* where x is in s, a sequence without repetitions
IndexOf(s, x) == CHOOSE i \in 1..Len(s) : s[i] = x

(***************************************************************************)
(* FixedAllocator                                                          *)
(***************************************************************************)
\* The pool as a record, so that its methods are operators on it.
Pool ==
    [capacity_ |-> capacity_, size_ |-> size_, chunks_ |-> chunks_,
     returned_ |-> returned_, region_bytes |-> region_bytes,
     chunkSize |-> ChunkSize]

\* ::operator new(bytes) for a region: a base pointer no region in use has.
\* Regions are never released while the pool lives, so the next unused
\* identity stands for it.
NewRegion(P) == Len(P.region_bytes) + 1

\* FixedAllocator<chunkSize>(): one region of capacity_ blocks.
FixedAllocator_ctor(chunkSize) ==
    LET P0 == [capacity_ |-> InitialCapacity, size_ |-> 0, chunks_ |-> <<>>,
               returned_ |-> <<>>, region_bytes |-> <<>>,
               chunkSize |-> chunkSize]
        chunk == NewRegion(P0)
    IN  [P0 EXCEPT !.region_bytes = Append(@, P0.capacity_ * chunkSize),
                   !.chunks_ = Append(@, chunk)]

\* a slip in allocate_memory_(): the new region is as large as the last one
allocate_memory_no_doubling(P) ==
    LET cap == P.capacity_
        new_chunk == NewRegion(P)
    IN  [P EXCEPT !.capacity_ = cap,
                  !.region_bytes = Append(@, cap * P.chunkSize),
                  !.chunks_ = Append(@, new_chunk),
                  !.size_ = 0]

\* allocate_memory_(): double the capacity, append a region, reset the cursor.
allocate_memory_(P) ==
    LET cap == P.capacity_ * 2
        new_chunk == NewRegion(P)
    IN  [P EXCEPT !.capacity_ = cap,
                  !.region_bytes = Append(@, cap * P.chunkSize),
                  !.chunks_ = Append(@, new_chunk),
                  !.size_ = 0]

\* a slip in allocate(): the block reused stays on the free list
allocate_without_pop(P) ==
    IF P.returned_ # <<>>
    THEN [p |-> P, memory |-> Last(P.returned_)]
    ELSE LET Q == IF P.size_ = P.capacity_ THEN allocate_memory_(P) ELSE P
         IN  [p |-> [Q EXCEPT !.size_ = @ + 1],
              memory |-> <<Last(Q.chunks_), Q.size_ * Q.chunkSize>>]

\* a slip in allocate(): the cursor is advanced before the address is taken
allocate_cursor_first(P) ==
    IF P.returned_ # <<>>
    THEN [p |-> [P EXCEPT !.returned_ = Front(@)],
          memory |-> Last(P.returned_)]
    ELSE LET Q == IF P.size_ = P.capacity_ THEN allocate_memory_(P) ELSE P
         IN  [p |-> [Q EXCEPT !.size_ = @ + 1],
              memory |-> <<Last(Q.chunks_), (Q.size_ + 1) * Q.chunkSize>>]

\* allocate(): the pool afterwards (p) and the block returned (memory).
allocate(P) ==
    IF P.returned_ # <<>>
    THEN [p |-> [P EXCEPT !.returned_ = Front(@)],
          memory |-> Last(P.returned_)]
    ELSE LET Q == IF P.size_ = P.capacity_ THEN allocate_memory_(P) ELSE P
         IN  [p |-> [Q EXCEPT !.size_ = @ + 1],
              memory |-> <<Last(Q.chunks_), Q.size_ * Q.chunkSize>>]

\* a slip in deallocate(): the block goes to the other end of the free list
deallocate_at_front(P, ptr) == [P EXCEPT !.returned_ = <<ptr>> \o @]

\* a slip in deallocate(): the cursor is moved back over the block
deallocate_and_rewind(P, ptr) ==
    [P EXCEPT !.returned_ = Append(@, ptr),
              !.size_ = IF @ > 0 THEN @ - 1 ELSE 0]

\* deallocate(ptr)
deallocate(P, ptr) == [P EXCEPT !.returned_ = Append(@, ptr)]

SetPool(P) ==
    /\ capacity_' = P.capacity_
    /\ size_' = P.size_
    /\ chunks_' = P.chunks_
    /\ returned_' = P.returned_
    /\ region_bytes' = P.region_bytes

\* Blocks cut from regions so far.
Cut(P) ==
    LET n == Len(P.chunks_)
        Full(i) == P.region_bytes[i] \div P.chunkSize
        RECURSIVE Sum(_)
        Sum(i) == IF i = 0 THEN 0 ELSE Full(i) + Sum(i - 1)
    IN  Sum(n - 1) + P.size_

\* s without its last occurrence of x (s itself when x is not in it)
RECURSIVE RemoveLast(_, _)
RemoveLast(s, x) ==
    IF s = <<>> THEN <<>>
    ELSE IF Last(s) = x THEN Front(s)
    ELSE Append(RemoveLast(Front(s), x), Last(s))

\* A call of allocate().  maxCut caps the blocks the model cuts from regions.
Allocate(maxCut) ==
    /\ returned_ = <<>> => Cut(Pool) < maxCut
    /\ LET r == allocate(Pool)
       IN  /\ SetPool(r.p)
           /\ outstanding' = outstanding (+) SetToBag({r.memory})
           /\ released' = RemoveLast(released, r.memory)
    /\ last_op' = "allocate"
    /\ UNCHANGED <<listVars, fastVars>>

\* A call of deallocate(ptr) with a block the client holds (the documented
\* precondition).  maxReturned caps the length of the free list.
Deallocate(maxReturned) ==
    /\ Len(returned_) < maxReturned
    /\ \E ptr \in BagToSet(outstanding) :
          /\ SetPool(deallocate(Pool, ptr))
          /\ outstanding' = outstanding (-) SetToBag({ptr})
          /\ released' = Append(released, ptr)
    /\ last_op' = "deallocate"
    /\ UNCHANGED <<listVars, fastVars>>

(***************************************************************************)
(* FastAllocator<T>                                                        *)
(*                                                                         *)
(* A pointer is a record: kind "block" for a block of the pool             *)
(* FixedAllocator<of> (region and byte offset), kind "array" for memory    *)
(* ::operator new returned to FastAllocator (region is its identity).      *)
(* allocator_[s] is <<>> for nullptr and <<P>> when it points to pool P.   *)
(***************************************************************************)
Fast == [allocator_ |-> allocator_, heap |-> heap]

BlockPtr(s, memory) ==
    [kind |-> "block", of |-> s, region |-> memory[1], off |-> memory[2]]

ArrayPtr(id) == [kind |-> "array", of |-> 0, region |-> id, off |-> 0]

\* the regions pool P of chunk size s has obtained, as entries of the heap
RegionsOf(s, P) ==
    {[kind |-> "region", of |-> s, region |-> P.chunks_[i],
      bytes |-> P.region_bytes[i]] : i \in 1..Len(P.chunks_)}

\* ::operator new(bytes) in FastAllocator::allocate: memory no live array has
NewArray(F) ==
    LET used == {h.region : h \in {x \in F.heap : x.kind = "array"}}
    IN  CHOOSE i \in 1..(Cardinality(used) + 1) :
            i \notin used /\ \A j \in 1..(i - 1) : j \in used

\* F with pool P stored as the instance of chunk size s, its regions in the heap
StorePool(F, s, P) ==
    [F EXCEPT !.allocator_[s] = <<P>>, !.heap = @ \cup RegionsOf(s, P)]

\* FixedAllocator<s>::getFixedAllocator(): F afterwards; the instance is
\* F.allocator_[s][1].
getFixedAllocator(F, s) ==
    IF F.allocator_[s] = <<>>
    THEN StorePool(F, s, FixedAllocator_ctor(s))
    ELSE F

\* a slip in FastAllocator::allocate: the test is on the bytes asked for
FastAllocator_allocate_by_bytes(F, sizeofT, n) ==
    IF n * sizeofT <= maxSize
    THEN LET F1 == getFixedAllocator(F, sizeofT)
             r == allocate(F1.allocator_[sizeofT][1])
         IN  [f |-> StorePool(F1, sizeofT, r.p),
              ptr |-> BlockPtr(sizeofT, r.memory)]
    ELSE LET id == NewArray(F)
         IN  [f |-> [F EXCEPT !.heap = @ \cup
                        {[kind |-> "array", of |-> 0, region |-> id,
                          bytes |-> n * sizeofT]}],
              ptr |-> ArrayPtr(id)]

\* FastAllocator<T>::allocate(n): F afterwards (f) and the pointer returned.
FastAllocator_allocate(F, sizeofT, n) ==
    IF sizeofT <= maxSize /\ n <= 1
    THEN LET F1 == getFixedAllocator(F, sizeofT)
             r == allocate(F1.allocator_[sizeofT][1])
         IN  [f |-> StorePool(F1, sizeofT, r.p),
              ptr |-> BlockPtr(sizeofT, r.memory)]
    ELSE LET id == NewArray(F)
         IN  [f |-> [F EXCEPT !.heap = @ \cup
                        {[kind |-> "array", of |-> 0, region |-> id,
                          bytes |-> n * sizeofT]}],
              ptr |-> ArrayPtr(id)]

\* FastAllocator<T>::deallocate(point, n)
FastAllocator_deallocate(F, sizeofT, point, n) ==
    IF sizeofT <= maxSize /\ n <= 1
    THEN LET F1 == getFixedAllocator(F, sizeofT)
             P == deallocate(F1.allocator_[sizeofT][1],
                             <<point.region, point.off>>)
         IN  StorePool(F1, sizeofT, P)
    ELSE [F EXCEPT !.heap = {h \in @ : ~(h.kind = "array" /\
                                          h.region = point.region)}]

\* ~FixedAllocator(): every region goes to ::operator delete.  Nothing in
\* the source calls it: allocator_ is a plain pointer, and no delete of the
\* instance is written.
FixedAllocator_dtor(F, s) ==
    [F EXCEPT !.heap = @ \ RegionsOf(s, F.allocator_[s][1])]

SetFast(F) ==
    /\ allocator_' = F.allocator_
    /\ heap' = F.heap

FCall(op, sizeofT, n, ptr) ==
    [op |-> op, sizeofT |-> sizeofT, n |-> n, ptr |-> ptr]

NoFCall == FCall("none", 0, 0, ArrayPtr(0))

\* FastAllocator<T>().allocate(n) for a T of sizeofT bytes
FastAllocate(sizeofT, n) ==
    /\ running
    /\ Cardinality(held) < MaxHeld
    /\ LET r == FastAllocator_allocate(Fast, sizeofT, n)
       IN  /\ SetFast(r.f)
           /\ held' = held \cup {[sizeofT |-> sizeofT, n |-> n, ptr |-> r.ptr]}
           /\ fcall' = FCall("allocate", sizeofT, n, r.ptr)
    /\ UNCHANGED <<running, poolVars, listVars>>

\* FastAllocator<T>().deallocate(ptr, n) of an allocation the client holds,
\* with the n it was allocated with (the documented precondition)
FastDeallocate ==
    /\ running
    /\ \E h \in held :
          /\ SetFast(FastAllocator_deallocate(Fast, h.sizeofT, h.ptr, h.n))
          /\ held' = held \ {h}
          /\ fcall' = FCall("deallocate", h.sizeofT, h.n, h.ptr)
    /\ UNCHANGED <<running, poolVars, listVars>>

\* The process ends: main returns or exit() is called.  Objects of static
\* storage are destroyed; allocator_ is a pointer, whose destruction does
\* nothing to the instance it points to.
Exit ==
    /\ running
    /\ running' = FALSE
    /\ fcall' = FCall("exit", 0, 0, ArrayPtr(0))
    /\ UNCHANGED <<allocator_, heap, held, poolVars, listVars>>

InitFastVars ==
    /\ allocator_ = [s \in ChunkSizes |-> <<>>]
    /\ heap = {}
    /\ held = {}
    /\ fcall = NoFCall
    /\ running = TRUE

(***************************************************************************)
(* List<T, std::allocator<T>>                                              *)
(*                                                                         *)
(* The heap and the list objects as one record W, so that the members of   *)
(* List are operators from W to the W they leave.                          *)
(***************************************************************************)
World ==
    [allocated |-> allocated, next |-> next, prev |-> prev, elem_ |-> elem_,
     lst |-> lst, net |-> net]

\* a List object that is not constructed
NoList ==
    [alive |-> FALSE, ended |-> FALSE, size_ |-> 0,
     begin_ |-> Null, end_ |-> Null]

\* the heap before anything is allocated
EmptyWorld ==
    [allocated |-> {},
     next |-> [p \in Addr |-> Null],
     prev |-> [p \in Addr |-> Null],
     elem_ |-> [p \in Addr |-> NoElem],
     lst |-> [l \in ListIds |-> NoList],
     net |-> [l \in ListIds |-> 0]]

RECURSIVE LowestFree(_, _)
LowestFree(free, k) ==
    IF k = 0 \/ free = {}
    THEN {}
    ELSE LET m == CHOOSE x \in free : \A y \in free : x <= y
         IN  {m} \cup LowestFree(free \ {m}, k - 1)

\* node_allocator_traits_::allocate(node_allocator_, 1) with std::allocator:
\* the addresses ::operator new may return, all of them unused: the k lowest.
NewChoices(W, k) == LowestFree(Addr \ W.allocated, k)

node_allocate(W, p) == [W EXCEPT !.allocated = @ \cup {p}]

\* node_allocator_traits_::deallocate(node_allocator_, p, 1).  What released
\* storage holds is indeterminate and no member reads it; the model clears it.
node_deallocate(W, p) ==
    [W EXCEPT !.allocated = @ \ {p}, !.next[p] = Null, !.prev[p] = Null]

\* Node(const T &value) : elem_(value) { next = prev = nullptr; }
node_construct(W, p, value) ==
    [W EXCEPT !.elem_[p] = value, !.next[p] = Null, !.prev[p] = Null]

\* node_allocator_traits_::destroy(node_allocator_, p)
node_destroy(W, p) == [W EXCEPT !.elem_[p] = NoElem]

\* List(const Allocator &alloc): the two sentinels begin (b) and end (e),
\* allocated and linked.
List_ctor(W, l, b, e) ==
    LET W1 == node_allocate(node_allocate(W, b), e)
    IN  [W1 EXCEPT !.next[b] = e,
                   !.prev[b] = Null,
                   !.prev[e] = b,
                   !.next[e] = Null,
                   !.lst[l] = [alive |-> TRUE, ended |-> FALSE, size_ |-> 0,
                               begin_ |-> b, end_ |-> e],
                   !.net[l] = 0]

\* begin(), cbegin()
begin(W, l) == W.next[W.lst[l].begin_]
\* end(), cend()
end(W, l) == W.lst[l].end_

\* a slip in insert_before_: ++size_ is forgotten
insert_before_without_count(W, l, ptr, value, newbie) ==
    LET W1 == node_construct(node_allocate(W, newbie), newbie, value)
        W2 == [W1 EXCEPT !.next[newbie] = ptr, !.prev[newbie] = W1.prev[ptr]]
        W3 == IF W2.prev[ptr] # Null
              THEN [W2 EXCEPT !.next[W2.prev[ptr]] = newbie]
              ELSE [W2 EXCEPT !.lst[l].begin_ = newbie]
    IN  [W3 EXCEPT !.prev[ptr] = newbie]

\* insert_before_(ptr, value); newbie is what the allocator returned.
insert_before_(W, l, ptr, value, newbie) ==
    LET W1 == node_construct(node_allocate(W, newbie), newbie, value)
        W2 == [W1 EXCEPT !.next[newbie] = ptr, !.prev[newbie] = W1.prev[ptr]]
        W3 == IF W2.prev[ptr] # Null
              THEN [W2 EXCEPT !.next[W2.prev[ptr]] = newbie]
              ELSE [W2 EXCEPT !.lst[l].begin_ = newbie]
    IN  [W3 EXCEPT !.prev[ptr] = newbie, !.lst[l].size_ = @ + 1]

\* emplace_before_(ptr): as insert_before_, the element value-initialized.
emplace_before_(W, l, ptr, newbie) ==
    LET W1 == [node_allocate(W, newbie) EXCEPT !.elem_[newbie] = DefaultElem]
        W2 == [W1 EXCEPT !.next[newbie] = ptr, !.prev[newbie] = W1.prev[ptr]]
        W3 == IF W2.prev[ptr] # Null
              THEN [W2 EXCEPT !.next[W2.prev[ptr]] = newbie]
              ELSE [W2 EXCEPT !.lst[l].begin_ = newbie]
    IN  [W3 EXCEPT !.prev[ptr] = newbie, !.lst[l].size_ = @ + 1]

\* The loop of List(count), with i calls of emplace_before_(end_) to go: the
\* worlds it can leave, the allocator choosing each node.
RECURSIVE emplace_loop(_, _, _, _)
emplace_loop(W, l, i, k) ==
    IF i = 0
    THEN {W}
    ELSE UNION {emplace_loop(emplace_before_(W, l, W.lst[l].end_, newbie),
                             l, i - 1, k) : newbie \in NewChoices(W, k)}

\* List(size_t count): List(Allocator()) with sentinels b and e, then the loop.
List_count_ctor(W, l, b, e, count, k) ==
    {[V EXCEPT !.net[l] = count] :
        V \in emplace_loop(List_ctor(W, l, b, e), l, count, k)}

\* a slip in erase_: the successor's prev is left pointing at ptr
erase_half_unlinked(W, l, ptr) ==
    LET W2 == IF W.prev[ptr] # Null
              THEN [W EXCEPT !.next[W.prev[ptr]] = W.next[ptr]]
              ELSE [W EXCEPT !.lst[l].begin_ = W.next[ptr]]
        W3 == [W2 EXCEPT !.allocated = @ \ {ptr}, !.elem_[ptr] = NoElem]
    IN  [W3 EXCEPT !.lst[l].size_ = @ - 1]

\* a slip in erase_: the successor's element is moved into ptr and the
\* successor's node is the one unlinked and released
erase_by_copy(W, l, ptr) ==
    LET nx == W.next[ptr]
    IN  IF nx = W.lst[l].end_
        THEN LET W1 == [W EXCEPT !.prev[nx] = W.prev[ptr],
                                 !.next[W.prev[ptr]] = nx]
                 W3 == node_deallocate(node_destroy(W1, ptr), ptr)
             IN  [W3 EXCEPT !.lst[l].size_ = @ - 1]
        ELSE LET W1 == [W EXCEPT !.elem_[ptr] = W.elem_[nx],
                                 !.next[ptr] = W.next[nx],
                                 !.prev[W.next[nx]] = ptr]
                 W3 == node_deallocate(node_destroy(W1, nx), nx)
             IN  [W3 EXCEPT !.lst[l].size_ = @ - 1]

\* erase_(ptr)
erase_(W, l, ptr) ==
    LET W1 == IF W.next[ptr] # Null
              THEN [W EXCEPT !.prev[W.next[ptr]] = W.prev[ptr]]
              ELSE [W EXCEPT !.lst[l].end_ = W.prev[ptr]]
        W2 == IF W1.prev[ptr] # Null
              THEN [W1 EXCEPT !.next[W1.prev[ptr]] = W1.next[ptr]]
              ELSE [W1 EXCEPT !.lst[l].begin_ = W1.next[ptr]]
        W3 == node_deallocate(node_destroy(W2, ptr), ptr)
    IN  [W3 EXCEPT !.lst[l].size_ = @ - 1]

\* insert(iter, value): the world afterwards (w) and the iterator returned.
insert(W, l, ptr, value, newbie) ==
    LET W1 == insert_before_(W, l, ptr, value, newbie)
    IN  [w |-> [W1 EXCEPT !.net[l] = @ + 1], ret |-> W1.next[ptr]]

\* a slip in erase: the iterator returned is the one passed in
erase_returns_argument(W, l, ptr) ==
    LET W1 == erase_(W, l, ptr)
    IN  [w |-> [W1 EXCEPT !.net[l] = @ - 1], ret |-> ptr]

\* erase(iter): the world afterwards (w) and the iterator returned.
erase(W, l, ptr) ==
    LET ret == W.next[ptr]
        W1 == erase_(W, l, ptr)
    IN  [w |-> [W1 EXCEPT !.net[l] = @ - 1], ret |-> ret]

\* a slip in pop_front: the test of size_ is missing
pop_front_unguarded(W, l) == erase(W, l, begin(W, l)).w

pop_front(W, l) ==
    IF W.lst[l].size_ # 0 THEN erase(W, l, begin(W, l)).w ELSE W

\* erase(--end())
pop_back(W, l) ==
    IF W.lst[l].size_ # 0 THEN erase(W, l, W.prev[end(W, l)]).w ELSE W

\* a slip in push_front: the position is the front sentinel, not begin()
push_front_at_sentinel(W, l, value, newbie) ==
    insert(W, l, W.lst[l].begin_, value, newbie).w

push_front(W, l, value, newbie) == insert(W, l, begin(W, l), value, newbie).w

push_back(W, l, value, newbie) == insert(W, l, end(W, l), value, newbie).w

\* while (size_ > 0) pop_back();
RECURSIVE pop_all(_, _)
pop_all(W, l) == IF W.lst[l].size_ > 0 THEN pop_all(pop_back(W, l), l) ELSE W

\* The loop of copy_, from iterator it on.  Each push_back allocates, and
\* the allocator decides what it returns: the result is the set of worlds
\* the loop can leave (none when the heap is exhausted).
RECURSIVE copy_loop(_, _, _, _, _)
copy_loop(W, l, rhs, it, k) ==
    IF it = end(W, rhs)
    THEN {W}
    ELSE UNION {copy_loop(push_back(W, l, W.elem_[it], newbie), l, rhs,
                          W.next[it], k) : newbie \in NewChoices(W, k)}

\* copy_(rhs)
copy_(W, l, rhs, k) == copy_loop(W, l, rhs, begin(W, rhs), k)

\* a slip in the copy constructor: the members are copied, the nodes shared
List_copy_ctor_shallow(W, l, rhs, k) == {[W EXCEPT !.lst[l] = W.lst[rhs]]}

\* List(const List &rhs) : List(rhs.allocator_) { copy_(rhs); }
List_copy_ctor(W, l, rhs, k) ==
    UNION {UNION {copy_(List_ctor(W, l, b, e), l, rhs, k) :
                     e \in NewChoices(node_allocate(W, b), k)} :
              b \in NewChoices(W, k)}

\* a slip in operator=: the old elements are not removed first
op_assign_without_clear(W, l, rhs, k) ==
    IF l = rhs THEN {W} ELSE copy_(W, l, rhs, k)

\* a slip in operator=: the test this == &rhs is missing
op_assign_without_self_test(W, l, rhs, k) == copy_(pop_all(W, l), l, rhs, k)

\* operator=(rhs).  std::allocator has no state to propagate.
op_assign(W, l, rhs, k) ==
    IF l = rhs THEN {W} ELSE copy_(pop_all(W, l), l, rhs, k)

\* ~List()
List_dtor(W, l) ==
    LET W1 == pop_all(W, l)
        W2 == node_deallocate(W1, W1.lst[l].begin_)
        W3 == node_deallocate(W2, W1.lst[l].end_)
    IN  [W3 EXCEPT !.lst[l] = [NoList EXCEPT !.ended = TRUE], !.net[l] = 0]

(***************************************************************************)
(* List<T, FastAllocator<T>>: the same members, with node_allocator_ a     *)
(* FastAllocator<Node>.  S is the heap of nodes (w) with the state of      *)
(* FastAllocator (f).  A node of such a list is a block of the pool        *)
(* FixedAllocator<NodeSize>; as a node address it lies above Addr, the     *)
(* addresses std::allocator returns.                                       *)
(***************************************************************************)
\* blocks cut before block ptr, counting through the regions (32, 64, ...)
BlockIndex(ptr) ==
    InitialCapacity * (2 ^ (ptr.region - 1) - 1) + ptr.off \div NodeSize

\* reinterpret_cast<Node *>: the node address of a block
NodeAddr(ptr) == NumAddrs + 1 + BlockIndex(ptr)

\* the node addresses of the first region of the pool
FastAddr == (NumAddrs + 1)..(NumAddrs + InitialCapacity)

\* the block at a node address of the first region
NodePtr(p) == BlockPtr(NodeSize, <<1, (p - NumAddrs - 1) * NodeSize>>)

\* the block of the pool of nodes at node address p, as the pool names it
BlockAt(p) == <<NodePtr(p).region, NodePtr(p).off>>

FastWorld == [w |-> World, f |-> Fast]

\* List(const Allocator &alloc)
fast_List_ctor(S, l) ==
    LET b == FastAllocator_allocate(S.f, NodeSize, 1)
        e == FastAllocator_allocate(b.f, NodeSize, 1)
    IN  [w |-> List_ctor(S.w, l, NodeAddr(b.ptr), NodeAddr(e.ptr)), f |-> e.f]

\* insert(iter, value)
fast_insert(S, l, ptr, value) ==
    LET a == FastAllocator_allocate(S.f, NodeSize, 1)
        r == insert(S.w, l, ptr, value, NodeAddr(a.ptr))
    IN  [w |-> r.w, f |-> a.f, ret |-> r.ret]

\* a slip under erase: the node's block is given back to the pool twice
fast_erase_twice(S, l, ptr) ==
    LET r == erase(S.w, l, ptr)
        f1 == FastAllocator_deallocate(S.f, NodeSize, NodePtr(ptr), 1)
    IN  [w |-> r.w,
         f |-> FastAllocator_deallocate(f1, NodeSize, NodePtr(ptr), 1),
         ret |-> r.ret]

\* erase(iter)
fast_erase(S, l, ptr) ==
    LET r == erase(S.w, l, ptr)
    IN  [w |-> r.w,
         f |-> FastAllocator_deallocate(S.f, NodeSize, NodePtr(ptr), 1),
         ret |-> r.ret]

fast_pop_front(S, l) ==
    IF S.w.lst[l].size_ # 0
    THEN LET r == fast_erase(S, l, begin(S.w, l)) IN [w |-> r.w, f |-> r.f]
    ELSE S

fast_pop_back(S, l) ==
    IF S.w.lst[l].size_ # 0
    THEN LET r == fast_erase(S, l, S.w.prev[end(S.w, l)])
         IN  [w |-> r.w, f |-> r.f]
    ELSE S

fast_push_front(S, l, value) ==
    LET r == fast_insert(S, l, begin(S.w, l), value) IN [w |-> r.w, f |-> r.f]

fast_push_back(S, l, value) ==
    LET r == fast_insert(S, l, end(S.w, l), value) IN [w |-> r.w, f |-> r.f]

\* while (size_ > 0) pop_back();
RECURSIVE fast_pop_all(_, _)
fast_pop_all(S, l) ==
    IF S.w.lst[l].size_ > 0 THEN fast_pop_all(fast_pop_back(S, l), l) ELSE S

\* a slip in ~List(): the loop is missing, only the sentinels are released
fast_List_dtor_sentinels_only(S, l) ==
    LET b == S.w.lst[l].begin_
        e == S.w.lst[l].end_
        f2 == FastAllocator_deallocate(S.f, NodeSize, NodePtr(b), 1)
        f3 == FastAllocator_deallocate(f2, NodeSize, NodePtr(e), 1)
        W2 == node_deallocate(node_deallocate(S.w, b), e)
    IN  [w |-> [W2 EXCEPT !.lst[l] = [NoList EXCEPT !.ended = TRUE],
                          !.net[l] = 0],
         f |-> f3]

\* ~List()
fast_List_dtor(S, l) ==
    LET S1 == fast_pop_all(S, l)
        b == S1.w.lst[l].begin_
        e == S1.w.lst[l].end_
        f2 == FastAllocator_deallocate(S1.f, NodeSize, NodePtr(b), 1)
        f3 == FastAllocator_deallocate(f2, NodeSize, NodePtr(e), 1)
    IN  [w |-> List_dtor(S1.w, l), f |-> f3]

(***************************************************************************)
(* Traversals, as a caller writes them with the iterators.                 *)
(***************************************************************************)
\* for (it = from; it != stop; ++it): the nodes visited.  fuel ends a walk
\* that would not end; a walk that reaches nullptr ends there.
RECURSIVE walk(_, _, _, _)
walk(W, it, stop, fuel) ==
    IF it = stop \/ it = Null \/ fuel = 0
    THEN <<>>
    ELSE <<it>> \o walk(W, W.next[it], stop, fuel - 1)

\* for (rit = reverse_iterator(from); rit != reverse_iterator(stop); ++rit):
\* *rit is the node before rit's base, ++rit moves the base back.
RECURSIVE rwalk(_, _, _, _)
rwalk(W, base, stop, fuel) ==
    IF base = stop \/ base = Null \/ fuel = 0
    THEN <<>>
    ELSE <<W.prev[base]>> \o rwalk(W, W.prev[base], stop, fuel - 1)

\* a slip in rend(): the front sentinel itself instead of its successor
RNodes_to_sentinel(W, l) ==
    rwalk(W, W.lst[l].end_, W.lst[l].begin_, NumAddrs)

\* begin() .. end()
Nodes(W, l) == walk(W, begin(W, l), end(W, l), NumAddrs)
\* rbegin() .. rend()
RNodes(W, l) == rwalk(W, W.lst[l].end_, begin(W, l), NumAddrs)

ElemsOf(W, nodes) == [i \in 1..Len(nodes) |-> W.elem_[nodes[i]]]
Forward(W, l) == ElemsOf(W, Nodes(W, l))
Reverse(W, l) == ElemsOf(W, RNodes(W, l))

(***************************************************************************)
(* The public calls.                                                       *)
(***************************************************************************)
SetWorld(W) ==
    /\ allocated' = W.allocated
    /\ next' = W.next
    /\ prev' = W.prev
    /\ elem_' = W.elem_
    /\ lst' = W.lst
    /\ net' = W.net

Call(op, l, src, pos, val, ret) ==
    [op |-> op, l |-> l, src |-> src, pos |-> pos, val |-> val, ret |-> ret]

NoCall == Call("none", "-", "-", Null, NoElem, Null)

PushFront(l, B) ==
    /\ lst[l].alive
    /\ lst[l].size_ < B.cap
    /\ \E value \in B.vals, newbie \in NewChoices(World, B.k) :
          /\ SetWorld(push_front(World, l, value, newbie))
          /\ content' = [content EXCEPT ![l] = <<value>> \o @]
          /\ call' = Call("push_front", l, "-", Null, value, Null)
    /\ UNCHANGED <<poolVars, fastVars>>

PushBack(l, B) ==
    /\ lst[l].alive
    /\ lst[l].size_ < B.cap
    /\ \E value \in B.vals, newbie \in NewChoices(World, B.k) :
          /\ SetWorld(push_back(World, l, value, newbie))
          /\ content' = [content EXCEPT ![l] = Append(@, value)]
          /\ call' = Call("push_back", l, "-", Null, value, Null)
    /\ UNCHANGED <<poolVars, fastVars>>

PopFront(l) ==
    /\ lst[l].alive
    /\ SetWorld(pop_front(World, l))
    /\ content' = [content EXCEPT ![l] = IF @ = <<>> THEN @ ELSE Tail(@)]
    /\ call' = Call("pop_front", l, "-", Null, NoElem, Null)
    /\ UNCHANGED <<poolVars, fastVars>>

PopBack(l) ==
    /\ lst[l].alive
    /\ SetWorld(pop_back(World, l))
    /\ content' = [content EXCEPT ![l] = IF @ = <<>> THEN @ ELSE Front(@)]
    /\ call' = Call("pop_back", l, "-", Null, NoElem, Null)
    /\ UNCHANGED <<poolVars, fastVars>>

\* insert(pos, value) with pos a live node or end()
Insert(l, B) ==
    /\ lst[l].alive
    /\ lst[l].size_ < B.cap
    /\ \E pos \in Range(Nodes(World, l)) \cup {end(World, l)},
          value \in B.vals, newbie \in NewChoices(World, B.k) :
          LET r == insert(World, l, pos, value, newbie)
              i == IndexOf(Append(Nodes(World, l), end(World, l)), pos)
          IN  /\ SetWorld(r.w)
              /\ content' = [content EXCEPT ![l] = InsertAt(@, i, value)]
              /\ call' = Call("insert", l, "-", pos, value, r.ret)
    /\ UNCHANGED <<poolVars, fastVars>>

\* erase(pos) with pos a live node
Erase(l) ==
    /\ lst[l].alive
    /\ \E pos \in Range(Nodes(World, l)) :
          LET r == erase(World, l, pos)
              i == IndexOf(Nodes(World, l), pos)
          IN  /\ SetWorld(r.w)
              /\ content' = [content EXCEPT ![l] = RemoveAt(@, i)]
              /\ call' = Call("erase", l, "-", pos, NoElem, r.ret)
    /\ UNCHANGED <<poolVars, fastVars>>

\* List l(rhs); for an l that has not lived yet
CopyConstruct(l, rhs, B) ==
    /\ ~lst[l].alive
    /\ ~lst[l].ended
    /\ lst[rhs].alive
    /\ \E W \in List_copy_ctor(World, l, rhs, B.k) : SetWorld(W)
    /\ content' = [content EXCEPT ![l] = content[rhs]]
    /\ call' = Call("copy", l, rhs, Null, NoElem, Null)
    /\ UNCHANGED <<poolVars, fastVars>>

\* l = rhs;
Assign(l, rhs, B) ==
    /\ lst[l].alive
    /\ lst[rhs].alive
    /\ \E W \in op_assign(World, l, rhs, B.k) : SetWorld(W)
    /\ content' = [content EXCEPT ![l] = content[rhs]]
    /\ call' = Call("assign", l, rhs, Null, NoElem, Null)
    /\ UNCHANGED <<poolVars, fastVars>>

\* l goes out of scope
Destroy(l) ==
    /\ lst[l].alive
    /\ SetWorld(List_dtor(World, l))
    /\ content' = [content EXCEPT ![l] = <<>>]
    /\ call' = Call("~List", l, "-", Null, NoElem, Null)
    /\ UNCHANGED <<poolVars, fastVars>>

\* One list, a, default-constructed.
InitList(B) ==
    /\ \E b \in NewChoices(EmptyWorld, B.k) :
          \E e \in NewChoices(node_allocate(EmptyWorld, b), B.k) :
             LET W == List_ctor(EmptyWorld, "a", b, e)
             IN  /\ allocated = W.allocated
                 /\ next = W.next
                 /\ prev = W.prev
                 /\ elem_ = W.elem_
                 /\ lst = W.lst
                 /\ net = W.net
    /\ content = [l \in ListIds |-> <<>>]
    /\ call = NoCall

\* One list, a, constructed as List<T> a(count).
InitListOfCount(B, maxCount) ==
    /\ \E count \in 0..maxCount :
          /\ \E b \in NewChoices(EmptyWorld, B.k) :
                \E e \in NewChoices(node_allocate(EmptyWorld, b), B.k) :
                   \E W \in List_count_ctor(EmptyWorld, "a", b, e, count, B.k) :
                      /\ allocated = W.allocated
                      /\ next = W.next
                      /\ prev = W.prev
                      /\ elem_ = W.elem_
                      /\ lst = W.lst
                      /\ net = W.net
          /\ content = [l \in ListIds |->
                           IF l = "a" THEN [i \in 1..count |-> DefaultElem]
                           ELSE <<>>]
    /\ call = NoCall

\* No list.
InitNoList ==
    /\ allocated = EmptyWorld.allocated
    /\ next = EmptyWorld.next
    /\ prev = EmptyWorld.prev
    /\ elem_ = EmptyWorld.elem_
    /\ lst = EmptyWorld.lst
    /\ net = EmptyWorld.net
    /\ content = [l \in ListIds |-> <<>>]
    /\ call = NoCall

InitPoolVars ==
    /\ LET P == FixedAllocator_ctor(ChunkSize)
       IN  /\ capacity_ = P.capacity_
           /\ size_ = P.size_
           /\ chunks_ = P.chunks_
           /\ returned_ = P.returned_
           /\ region_bytes = P.region_bytes
    /\ outstanding = EmptyBag
    /\ released = <<>>
    /\ last_op = "FixedAllocator"

(***************************************************************************)
(* SpecPool, SpecGrowth: one pool and its client.                          *)
(***************************************************************************)
InitPool == InitPoolVars /\ InitNoList /\ InitFastVars

NextPool == Allocate(MaxCut) \/ Deallocate(MaxReturned)

SpecPool == InitPool /\ [][NextPool]_vars

NextGrowth == Allocate(MaxCutGrowth) \/ Deallocate(MaxReturnedGrowth)

SpecGrowth == InitPool /\ [][NextGrowth]_vars

(***************************************************************************)
(* Spec: one list and its caller.                                          *)
(***************************************************************************)
Init == InitPoolVars /\ InitList(SpecBounds) /\ InitFastVars

Next ==
    \/ PushFront("a", SpecBounds)
    \/ PushBack("a", SpecBounds)
    \/ PopFront("a")
    \/ PopBack("a")
    \/ Insert("a", SpecBounds)
    \/ Erase("a")

Spec == Init /\ [][Next]_vars

(***************************************************************************)
(* SpecIter: one list, constructed as List<T> a(count), and its caller,    *)
(* as in Spec, with an allocator that returns the lowest unused address:   *)
(* what a step does to the nodes, to the sentinels and to the iterators    *)
(* the caller holds.                                                       *)
(***************************************************************************)
InitIter ==
    InitPoolVars /\ InitListOfCount(IterBounds, MaxInitial) /\ InitFastVars

NextIter ==
    \/ PushFront("a", IterBounds)
    \/ PushBack("a", IterBounds)
    \/ PopFront("a")
    \/ PopBack("a")
    \/ Insert("a", IterBounds)
    \/ Erase("a")

SpecIter == InitIter /\ [][NextIter]_vars

(***************************************************************************)
(* SpecCopy: two lists, copied, assigned, changed and destroyed.           *)
(***************************************************************************)
InitCopy == InitPoolVars /\ InitList(CopyBounds) /\ InitFastVars

NextCopy ==
    \E l \in ListIds :
       \/ PushBack(l, CopyBounds)
       \/ PopFront(l)
       \/ Destroy(l)
       \/ \E rhs \in ListIds \ {l} : CopyConstruct(l, rhs, CopyBounds)
       \/ \E rhs \in ListIds : Assign(l, rhs, CopyBounds)

SpecCopy == InitCopy /\ [][NextCopy]_vars

(***************************************************************************)
(* SpecSub: the same calls made on two lists side by side, a a             *)
(* List<T, std::allocator<T>> and b a List<T, FastAllocator<T>>.  A        *)
(* position is given by its index: 1 is begin(), size() + 1 is end().      *)
(***************************************************************************)
\* the iterator at position i of list l
At(W, l, i) == Append(Nodes(W, l), end(W, l))[i]

\* the position an iterator of list l is at: 0 when it is at none
PositionOf(W, l, it) ==
    LET c == Append(Nodes(W, l), end(W, l))
    IN  IF it \in Range(c) THEN IndexOf(c, it) ELSE 0

SetSub(S) == SetWorld(S.w) /\ SetFast(S.f)

BothAlive == lst["a"].alive /\ lst["b"].alive

SubPushFront(B) ==
    /\ BothAlive
    /\ lst["a"].size_ < B.cap
    /\ \E value \in B.vals, newbie \in NewChoices(World, B.k) :
          LET W1 == push_front(World, "a", value, newbie)
          IN  /\ SetSub(fast_push_front([w |-> W1, f |-> Fast], "b", value))
              /\ content' = [l \in ListIds |-> <<value>> \o content[l]]
              /\ call' = Call("push_front", "a", "b", Null, value, Null)
    /\ UNCHANGED <<poolVars, held, fcall, running>>

SubPushBack(B) ==
    /\ BothAlive
    /\ lst["a"].size_ < B.cap
    /\ \E value \in B.vals, newbie \in NewChoices(World, B.k) :
          LET W1 == push_back(World, "a", value, newbie)
          IN  /\ SetSub(fast_push_back([w |-> W1, f |-> Fast], "b", value))
              /\ content' = [l \in ListIds |-> Append(content[l], value)]
              /\ call' = Call("push_back", "a", "b", Null, value, Null)
    /\ UNCHANGED <<poolVars, held, fcall, running>>

SubPopFront ==
    /\ BothAlive
    /\ SetSub(fast_pop_front([w |-> pop_front(World, "a"), f |-> Fast], "b"))
    /\ content' = [l \in ListIds |->
                      IF content[l] = <<>> THEN <<>> ELSE Tail(content[l])]
    /\ call' = Call("pop_front", "a", "b", Null, NoElem, Null)
    /\ UNCHANGED <<poolVars, held, fcall, running>>

SubPopBack ==
    /\ BothAlive
    /\ SetSub(fast_pop_back([w |-> pop_back(World, "a"), f |-> Fast], "b"))
    /\ content' = [l \in ListIds |->
                      IF content[l] = <<>> THEN <<>> ELSE Front(content[l])]
    /\ call' = Call("pop_back", "a", "b", Null, NoElem, Null)
    /\ UNCHANGED <<poolVars, held, fcall, running>>

\* insert(pos, value) at position i of both; pos and ret of the call are the
\* pairs of what a and b were given and returned
SubInsert(B) ==
    /\ BothAlive
    /\ lst["a"].size_ < B.cap
    /\ \E i \in 1..(lst["a"].size_ + 1), value \in B.vals,
          newbie \in NewChoices(World, B.k) :
          LET pa == At(World, "a", i)
              pb == At(World, "b", i)
              ra == insert(World, "a", pa, value, newbie)
              rb == fast_insert([w |-> ra.w, f |-> Fast], "b", pb, value)
          IN  /\ SetSub(rb)
              /\ content' = [l \in ListIds |-> InsertAt(content[l], i, value)]
              /\ call' = Call("insert", "a", "b", <<pa, pb>>, value,
                              <<ra.ret, rb.ret>>)
    /\ UNCHANGED <<poolVars, held, fcall, running>>

\* erase(pos) at position i of both
SubErase ==
    /\ BothAlive
    /\ \E i \in 1..lst["a"].size_ :
          LET pa == At(World, "a", i)
              pb == At(World, "b", i)
              ra == erase(World, "a", pa)
              rb == fast_erase([w |-> ra.w, f |-> Fast], "b", pb)
          IN  /\ SetSub(rb)
              /\ content' = [l \in ListIds |-> RemoveAt(content[l], i)]
              /\ call' = Call("erase", "a", "b", <<pa, pb>>, NoElem,
                              <<ra.ret, rb.ret>>)
    /\ UNCHANGED <<poolVars, held, fcall, running>>

\* both lists go out of scope
SubDestroy ==
    /\ BothAlive
    /\ SetSub(fast_List_dtor([w |-> List_dtor(World, "a"), f |-> Fast], "b"))
    /\ content' = [l \in ListIds |-> <<>>]
    /\ call' = Call("~List", "a", "b", Null, NoElem, Null)
    /\ UNCHANGED <<poolVars, held, fcall, running>>

\* the heap of nodes with the addresses of both allocators, nothing allocated
SubEmptyWorld ==
    [EmptyWorld EXCEPT !.next = [p \in Addr \cup FastAddr |-> Null],
                       !.prev = [p \in Addr \cup FastAddr |-> Null],
                       !.elem_ = [p \in Addr \cup FastAddr |-> NoElem]]

EmptyFast == [allocator_ |-> [s \in ChunkSizes |-> <<>>], heap |-> {}]

\* List<T> a; List<T, FastAllocator<T>> b;
InitSub ==
    /\ InitPoolVars
    /\ \E b \in NewChoices(SubEmptyWorld, SubBounds.k) :
          \E e \in NewChoices(node_allocate(SubEmptyWorld, b), SubBounds.k) :
             LET S == fast_List_ctor([w |-> List_ctor(SubEmptyWorld, "a", b, e),
                                      f |-> EmptyFast], "b")
             IN  /\ allocated = S.w.allocated
                 /\ next = S.w.next
                 /\ prev = S.w.prev
                 /\ elem_ = S.w.elem_
                 /\ lst = S.w.lst
                 /\ net = S.w.net
                 /\ allocator_ = S.f.allocator_
                 /\ heap = S.f.heap
    /\ content = [l \in ListIds |-> <<>>]
    /\ call = NoCall
    /\ held = {}
    /\ fcall = NoFCall
    /\ running = TRUE

NextSub ==
    \/ SubPushFront(SubBounds)
    \/ SubPushBack(SubBounds)
    \/ SubPopFront
    \/ SubPopBack
    \/ SubInsert(SubBounds)
    \/ SubErase
    \/ SubDestroy

SpecSub == InitSub /\ [][NextSub]_vars

(***************************************************************************)
(* SpecFast: FastAllocator<T> for element types of several sizes, its      *)
(* client, and the end of the process.                                     *)
(***************************************************************************)
InitFast == InitPoolVars /\ InitNoList /\ InitFastVars

NextFast ==
    \/ \E sizeofT \in ElemSizes, n \in 0..MaxCount : FastAllocate(sizeofT, n)
    \/ FastDeallocate
    \/ Exit

SpecFast == InitFast /\ [][NextFast]_vars

(***************************************************************************)
(* The pool's claims.                                                      *)
(***************************************************************************)
\* C1: under SpecPool (deallocate is only given blocks that are outstanding)
\* no block is outstanding twice: whatever allocate returns differs from
\* every block that is outstanding at the moment of the call.
C1_DistinctOutstanding ==
    \A blk \in BagToSet(outstanding) : CopiesIn(blk, outstanding) = 1

\* allocate has just reissued a released block while a second region is in
\* use and other blocks are outstanding
C1_Witness ==
    /\ last_op = "allocate"
    /\ Len(chunks_) = 2
    /\ Cut(Pool) = MaxCut
    /\ BagCardinality(outstanding) = MaxCut - 1
    /\ Len(returned_) = 1

\* C2: an allocate that finds the free list non-empty returns the block
\* released most recently among those not reissued since (so the block of a
\* deallocate that came right before it), and changes neither the cursor nor
\* the regions.
C2_Step ==
    (last_op' = "allocate" /\ returned_ # <<>>) =>
        /\ released # <<>>
        /\ outstanding' = outstanding (+) SetToBag({Last(released)})
        /\ size_' = size_
        /\ capacity_' = capacity_
        /\ chunks_' = chunks_
        /\ region_bytes' = region_bytes

C3_Capacities ==
    /\ Len(chunks_) >= 1
    /\ Len(region_bytes) = Len(chunks_)
    /\ region_bytes[1] = 32 * ChunkSize
    /\ \A i \in 2..Len(chunks_) : region_bytes[i] = 2 * region_bytes[i - 1]
    /\ capacity_ * ChunkSize = region_bytes[Len(chunks_)]

C3_Step ==
    /\ (last_op' = "allocate" /\ returned_ = <<>> /\ size_ = capacity_) =>
          /\ Len(chunks_') = Len(chunks_) + 1
          /\ SubSeq(chunks_', 1, Len(chunks_)) = chunks_
          /\ Last(chunks_') \notin Range(chunks_)
    /\ ~(last_op' = "allocate" /\ returned_ = <<>> /\ size_ = capacity_) =>
          chunks_' = chunks_

C3_Growth == []C3_Capacities /\ [][C3_Step]_vars

\* the pool has grown twice: regions of 32, 64 and 128 blocks
C3_Witness ==
    /\ Len(chunks_) = 3
    /\ region_bytes = <<32 * ChunkSize, 64 * ChunkSize, 128 * ChunkSize>>
    /\ size_ = 1

(***************************************************************************)
(* The list's claims.                                                      *)
(***************************************************************************)
\* the nodes met from the front sentinel along next, both sentinels included
ChainNext(W, l) ==
    Append(walk(W, W.lst[l].begin_, W.lst[l].end_, NumAddrs + 1),
           W.lst[l].end_)

\* the nodes met from the back sentinel along prev, both sentinels included
ChainPrev(W, l) ==
    <<W.lst[l].end_>> \o
    rwalk(W, W.lst[l].end_, W.lst[l].begin_, NumAddrs + 1)

\* the non-sentinel nodes between the sentinels along next
LiveNodes(W, l) == SubSeq(ChainNext(W, l), 2, Len(ChainNext(W, l)) - 1)

\* what a caller can tell of list l: its members, nodes and elements
ListView(l) ==
    IF lst[l].alive
    THEN <<lst[l], ChainNext(World, l), Forward(World, l)>>
    ELSE <<lst[l], <<>>, <<>>>>

\* C4: size() is the number of insertions minus the number of removals that
\* removed a node, and the number of non-sentinel nodes between the front
\* and the back sentinel along next.
C4_SizeIsCount ==
    /\ lst["a"].size_ = net["a"]
    /\ lst["a"].size_ = Len(LiveNodes(World, "a"))
    /\ lst["a"].begin_ \notin Range(LiveNodes(World, "a"))
    /\ lst["a"].end_ \notin Range(LiveNodes(World, "a"))

\* one of three elements was erased
C4_Witness ==
    /\ call.op = "erase"
    /\ lst["a"].size_ = 2
    /\ net["a"] = 2

\* C5: next and prev form one doubly-linked chain: n.next.prev = n for every
\* node but the back sentinel, n.prev.next = n for every node but the front
\* sentinel, and the chain along next from the front sentinel is the reverse
\* of the chain along prev from the back sentinel.
C5_LinksConsistent ==
    LET b == lst["a"].begin_
        e == lst["a"].end_
    IN  /\ \A n \in allocated \ {e} :
              next[n] \in allocated /\ prev[next[n]] = n
        /\ \A n \in allocated \ {b} :
              prev[n] \in allocated /\ next[prev[n]] = n
        /\ ChainNext(World, "a") = Rev(ChainPrev(World, "a"))
        /\ Range(ChainNext(World, "a")) = allocated
        /\ Len(ChainNext(World, "a")) = Cardinality(allocated)

\* a node was inserted between two others, in a heap where a lower address
\* is unused
C5_Witness ==
    /\ call.op = "insert"
    /\ lst["a"].size_ = 3
    /\ call.pos = next[next[next[lst["a"].begin_]]]
    /\ Cardinality(allocated) = 5
    /\ \E p \in allocated : p > 5

\* C6: insert(p, v) returns an iterator to the node it inserted: the node
\* right before p, holding v.
C6_InsertReturnsNew ==
    call.op = "insert" =>
        /\ call.ret = prev[call.pos]
        /\ call.ret \in allocated
        /\ elem_[call.ret] = call.val
        /\ next[call.ret] = call.pos

\* C7: erase(p) removes the node p and no other, keeps the order and the
\* values of the other elements, and returns the node that followed p
\* (end() when p was last).
C7_Step ==
    call'.op = "erase" =>
        LET p == call'.pos
            old == Nodes(World, "a")
            i == IndexOf(old, p)
        IN  /\ p \in Range(old)
            /\ Nodes(World, "a")' = RemoveAt(old, i)
            /\ Forward(World, "a")' = RemoveAt(Forward(World, "a"), i)
            /\ call'.ret = Append(old, lst["a"].end_)[i + 1]
            /\ allocated' = allocated \ {p}
            /\ lst'["a"] = [lst["a"] EXCEPT !.size_ = @ - 1]

C7_EraseRemovesOne == [][C7_Step]_vars

\* the middle one of three elements was erased
C7_Witness ==
    /\ call.op = "erase"
    /\ lst["a"].size_ = 2
    /\ call.ret = prev[lst["a"].end_]
    /\ prev[call.ret] # lst["a"].begin_

\* C8: begin() to end() visits the elements the caller expects, in order
\* (push_back appends, push_front prepends, insert and erase act at their
\* position), and rbegin() to rend() visits the same in reverse; no
\* traversal visits a sentinel.
C8_Traversals ==
    /\ Forward(World, "a") = content["a"]
    /\ Reverse(World, "a") = Rev(content["a"])
    /\ RNodes(World, "a") = Rev(Nodes(World, "a"))
    /\ {lst["a"].begin_, lst["a"].end_} \cap Range(Nodes(World, "a")) = {}
    /\ {lst["a"].begin_, lst["a"].end_} \cap Range(RNodes(World, "a")) = {}

\* after push_back(1); push_back(2); push_back(3); erase(begin()): size 2,
\* forward 2,3 and reverse 3,2
C8_Witness ==
    /\ call.op = "erase"
    /\ call.ret = next[lst["a"].begin_]
    /\ lst["a"].size_ = 2
    /\ Forward(World, "a") = <<2, 3>>
    /\ Reverse(World, "a") = <<3, 2>>

\* C9: List l(rhs) leaves l with the size and the elements of rhs, in
\* order, on nodes and sentinels of its own, and rhs as it was; after that no
\* call on one list (a change, its destruction) changes what the other holds.
C9_Step ==
    /\ \A l, rhs \in ListIds :
          (call'.op = "copy" /\ call'.l = l /\ call'.src = rhs) =>
              /\ lst'[l].alive
              /\ lst'[l].size_ = lst[rhs].size_
              /\ Forward(World, l)' = Forward(World, rhs)
              /\ Len(Forward(World, l)') = lst[rhs].size_
              /\ Range(ChainNext(World, l)') \cap
                    Range(ChainNext(World, rhs)') = {}
              /\ Range(ChainNext(World, l)') \cap allocated = {}
    /\ \A l \in ListIds : call'.l # l => ListView(l)' = ListView(l)

C9_CopyIsIndependent == [][C9_Step]_vars

\* the original was destroyed after it was copied; the copy
\* still holds the two elements
C9_Witness ==
    /\ call.op = "~List"
    /\ call.l = "a"
    /\ lst["b"].alive
    /\ lst["b"].size_ = 2
    /\ Forward(World, "b") = <<1, 2>>

\* C10: l = rhs with l and rhs two lists leaves l with the size and the
\* elements of rhs, in order, whatever l held; rhs is as it was, the nodes l
\* held are released (l keeps its sentinels and holds as many nodes as rhs),
\* and the two lists share no node.
C10_Step ==
    \A l, rhs \in ListIds :
        (call'.op = "assign" /\ call'.l = l /\ call'.src = rhs /\ l # rhs) =>
            /\ lst'[l].size_ = lst[rhs].size_
            /\ Forward(World, l)' = Forward(World, rhs)
            /\ Len(Forward(World, l)') = lst[rhs].size_
            /\ ListView(rhs)' = ListView(rhs)
            /\ lst'[l].begin_ = lst[l].begin_
            /\ lst'[l].end_ = lst[l].end_
            /\ Range(ChainNext(World, l)') \cap
                  Range(ChainNext(World, rhs)') = {}
            /\ allocated' =
                  Range(ChainNext(World, l)') \cup Range(ChainNext(World, rhs)')

C10_AssignCopies == [][C10_Step]_vars

\* b = a was run and both hold 2,1; the first node of b has an address
\* that was released after b was constructed
C10_Witness ==
    /\ call.op = "assign"
    /\ call.l = "b"
    /\ call.src = "a"
    /\ Forward(World, "b") = <<2, 1>>
    /\ Forward(World, "a") = <<2, 1>>
    /\ next[lst["b"].begin_] < lst["b"].begin_

\* the node of a the step removes: Null when it removes none
Removed ==
    CASE call'.op = "erase" -> call'.pos
      [] call'.op = "pop_front" /\ lst["a"].size_ # 0 -> begin(World, "a")
      [] call'.op = "pop_back" /\ lst["a"].size_ # 0 -> prev[end(World, "a")]
      [] OTHER -> Null

\* C14: an iterator at a live node X stays at that node, with the same
\* element, through every insertion and every erasure of another node,
\* next to X or not; ++ and -- then reach the node after and the node before
\* X in the list as it is now, and the nodes that stay keep their order.
\* Only the erasure of X itself ends it.
C14_Step ==
    LET old == Nodes(World, "a")
        new == Nodes(World, "a")'
        chain == <<lst'["a"].begin_>> \o new \o <<lst'["a"].end_>>
        Stays(n) == n # Removed
        WasThere(n) == n \in Range(old)
    IN  /\ SelectSeq(new, WasThere) = SelectSeq(old, Stays)
        /\ \A X \in Range(old) :
              IF X = Removed
              THEN X \notin allocated'
              ELSE X \in allocated' /\ elem_'[X] = elem_[X]
        /\ \A i \in 1..Len(new) :
              next'[new[i]] = chain[i + 2] /\ prev'[new[i]] = chain[i]

C14_IteratorsStay == [][C14_Step]_vars

\* a node was inserted right before the last of two elements, whose
\* neighbour before it is now the new node
C14_Witness ==
    /\ call.op = "insert"
    /\ lst["a"].size_ = 3
    /\ call.pos = prev[lst["a"].end_]
    /\ elem_[prev[call.pos]] = call.val
    /\ prev[prev[call.pos]] = next[lst["a"].begin_]

\* what a pop that removes node pa of a and node pb of b must leave, the
\* elements of each list going from before to after
PopRemoves(pa, pb, before, after) ==
    /\ \A l \in ListIds :
          /\ lst'[l] = [lst[l] EXCEPT !.size_ = @ - 1]
          /\ Forward(World, l)' = after[l]
          /\ Forward(World, l) = before[l]
    /\ allocated' = allocated \ {pa, pb}
    /\ allocator_'[NodeSize][1] =
          [allocator_[NodeSize][1] EXCEPT !.returned_ = Append(@, BlockAt(pb))]

\* C15: pop_front() and pop_back() on an empty list change nothing: size_
\* stays 0, no link and no sentinel changes, and the allocator is not
\* called (nothing is allocated or released, the pool of b is as it was).
\* On a list that is not empty pop_front removes the first element and
\* pop_back the last, that one node and no other.
C15_Step ==
    LET na == Nodes(World, "a")
        nb == Nodes(World, "b")
        f == [l \in ListIds |-> Forward(World, l)]
    IN  /\ (call'.op \in {"pop_front", "pop_back"} /\ lst["a"].size_ = 0) =>
              /\ lst["b"].size_ = 0
              /\ UNCHANGED <<allocated, next, prev, elem_, lst, allocator_, heap>>
        /\ (call'.op = "pop_front" /\ lst["a"].size_ # 0) =>
              /\ Nodes(World, "a")' = Tail(na) /\ Nodes(World, "b")' = Tail(nb)
              /\ PopRemoves(na[1], nb[1], f, [l \in ListIds |-> Tail(f[l])])
        /\ (call'.op = "pop_back" /\ lst["a"].size_ # 0) =>
              /\ Nodes(World, "a")' = Front(na) /\ Nodes(World, "b")' = Front(nb)
              /\ PopRemoves(Last(na), Last(nb), f,
                            [l \in ListIds |-> Front(f[l])])

C15_PopsAtTheEnds == [][C15_Step]_vars

\* pop_back was called on lists that never held an element: the pool of b
\* has cut the two sentinels and nothing else, and nothing was released
C15_Witness ==
    /\ call.op = "pop_back"
    /\ BothAlive
    /\ lst["a"].size_ = 0 /\ lst["b"].size_ = 0
    /\ allocator_[NodeSize][1].size_ = 2
    /\ allocator_[NodeSize][1].returned_ = <<>>
    /\ Cardinality(allocated) = 4

\* C16: a = a changes nothing: the size, the elements, the sentinels, every
\* node and every link are what they were, and nothing is allocated or
\* released (std::allocator, the allocator of the list, has no state).
C16_Step ==
    (call'.op = "assign" /\ call'.l = call'.src) =>
        /\ UNCHANGED <<allocated, next, prev, elem_, lst>>
        /\ \A l \in ListIds : ListView(l)' = ListView(l)

C16_SelfAssignment == [][C16_Step]_vars

\* b = b was run on a b of two elements, next to a live a
C16_Witness ==
    /\ call.op = "assign"
    /\ call.l = "b" /\ call.src = "b"
    /\ lst["b"].size_ = 2
    /\ Forward(World, "b") = content["b"]
    /\ lst["a"].alive

\* s is an initial part of t
IsPrefix(s, t) == Len(s) <= Len(t) /\ SubSeq(t, 1, Len(s)) = s

\* C17: deallocate(p) only puts p at the end of the free list: the regions
\* owned, their sizes, the capacity and the cursor are as before; and in
\* every call of the pool the regions owned before are still owned, in the
\* same order and with the same bytes (regions are only ever added).
C17_Step ==
    /\ last_op' = "deallocate" =>
          /\ \E ptr \in BagToSet(outstanding) :
                /\ returned_' = Append(returned_, ptr)
                /\ outstanding' = outstanding (-) SetToBag({ptr})
          /\ UNCHANGED <<chunks_, region_bytes, capacity_, size_>>
    /\ IsPrefix(chunks_, chunks_')
    /\ IsPrefix(region_bytes, region_bytes')

TookFromPool(sz) ==
    /\ fcall'.ptr.kind = "block"
    /\ fcall'.ptr.of = sz
    /\ allocator_'[sz] # <<>>
    /\ allocator_'[sz] # allocator_[sz]
    /\ fcall'.ptr.region \in Range(allocator_'[sz][1].chunks_)
    /\ \A s \in ChunkSizes \ {sz} : allocator_'[s] = allocator_[s]
    /\ {h \in heap' : h.kind = "array"} = {h \in heap : h.kind = "array"}

\* the step took bytes bytes from ::operator new and touched no pool
TookFromNew(bytes) ==
    /\ fcall'.ptr.kind = "array"
    /\ allocator_' = allocator_
    /\ heap \subseteq heap'
    /\ heap' \ heap = {[kind |-> "array", of |-> 0,
                         region |-> fcall'.ptr.region, bytes |-> bytes]}

C11_OriginalStep ==
    fcall'.op = "allocate" =>
        IF fcall'.n = 1 /\ fcall'.sizeofT <= 32
        THEN TookFromPool(fcall'.sizeofT)
        ELSE TookFromNew(fcall'.n * fcall'.sizeofT)

\* C11 as stated: allocate(n) takes its memory from the pool keyed by
\* sizeof(T) if and only if n = 1 and sizeof(T) <= 32; otherwise (n = 0
\* included) it takes n * sizeof(T) bytes from ::operator new and touches no
\* pool.
C11_PoolIffOne == [][C11_OriginalStep]_vars

C11_Step ==
    fcall'.op = "allocate" =>
        IF fcall'.n <= 1 /\ fcall'.sizeofT <= 32
        THEN TookFromPool(fcall'.sizeofT)
        ELSE TookFromNew(fcall'.n * fcall'.sizeofT)

\* C11 amended: allocate(n) takes its memory from the pool keyed by sizeof(T)
\* if and only if n <= 1 (n = 0 or n = 1) and sizeof(T) <= 32; for n >= 2 or
\* a larger element it takes n * sizeof(T) bytes from ::operator new and
\* touches no pool.
C11_PoolIffAtMostOne == [][C11_Step]_vars

\* allocate(0) for a small element has just returned a block of that
\* element's pool, while the client holds memory for one element of 33
\* bytes, which came from ::operator new
C11_Witness ==
    /\ fcall.op = "allocate"
    /\ fcall.n = 0
    /\ fcall.sizeofT = ChunkSize
    /\ fcall.ptr.kind = "block"
    /\ \E h \in held : h.sizeofT = maxSize + 1 /\ h.n = 1 /\ h.ptr.kind = "array"

C20_State ==
    LET b == lst["a"].begin_
        e == lst["a"].end_
        live == Nodes(World, "a")
    IN  /\ b # Null /\ e # Null /\ b # e
        /\ prev[b] = Null
        /\ next[e] = Null
        /\ Len(live) = lst["a"].size_
        /\ b \notin Range(live) /\ e \notin Range(live)
        /\ {b, e} \cup Range(live) = allocated
        /\ \A n \in Range(live) : next[n] # Null /\ prev[n] # Null

\* What C20 says of a call: begin_ and end_ are what they were, and the
\* node erase_ or insert_before_ was given had the neighbours whose absence
\* makes them assign begin_ or end_.
C20_Step ==
    LET op == call'.op
        ptr == CASE op \in {"insert", "erase"} -> call'.pos
                 [] op \in {"push_front", "pop_front"} -> begin(World, "a")
                 [] op = "push_back" -> end(World, "a")
                 [] op = "pop_back" -> prev[end(World, "a")]
                 [] OTHER -> Null
        erases == op = "erase" \/
                  (op \in {"pop_front", "pop_back"} /\ lst["a"].size_ # 0)
        inserts == op \in {"insert", "push_front", "push_back"}
    IN  /\ lst'["a"].begin_ = lst["a"].begin_
        /\ lst'["a"].end_ = lst["a"].end_
        /\ inserts => prev[ptr] # Null
        /\ erases => prev[ptr] # Null /\ next[ptr] # Null

\* C20: in every sequence of public calls whose positions are live nodes or
\* end(), begin_ and end_ stay what the constructor made them, begin_->prev
\* and end_->next stay null, every live node has a next and a prev, and so
\* no call takes a branch of erase_ or insert_before_ that assigns begin_
\* or end_.
C20_SentinelsFixed == []C20_State /\ [][C20_Step]_vars

\* erase(begin()) has just removed the only element: the node erased lay
\* between the two sentinels, which are linked to each other again
C20_Witness ==
    /\ call.op = "erase"
    /\ lst["a"].size_ = 0
    /\ content["a"] = <<>>
    /\ next[lst["a"].begin_] = lst["a"].end_
    /\ prev[lst["a"].end_] = lst["a"].begin_
    /\ call.ret = lst["a"].end_
    /\ allocated = {lst["a"].begin_, lst["a"].end_}

\* The pool of size s comes into being only in a request FastAllocator routes
\* to that size, and once it exists it stays the same instance: it is there
\* in every later state and its regions are those it had, with more added.
C18_LazyStep ==
    \A s \in ChunkSizes :
        /\ (allocator_[s] = <<>> /\ allocator_'[s] # <<>>) =>
              /\ fcall'.op \in {"allocate", "deallocate"}
              /\ fcall'.sizeofT = s
              /\ fcall'.ptr.kind = "block"
        /\ allocator_[s] # <<>> =>
              /\ allocator_'[s] # <<>>
              /\ IsPrefix(allocator_[s][1].chunks_, allocator_'[s][1].chunks_)

\* when the process ends every pool is destroyed: none of their regions is
\* left in the heap
C18_ExitStep ==
    (running /\ ~running') => \A h \in heap' : h.kind # "region"

\* C18 as stated: a pool is created by the first request for its block
\* size and every later request gets that instance; when the process ends
\* the pool is destroyed, once, and all the regions it owns are released.
C18_LazyAndDestroyedAtExit == [][C18_LazyStep /\ C18_ExitStep]_vars

\* C12: with the same calls made on a (std::allocator) and on b
\* (FastAllocator), after every step the two have the same size and the
\* same elements in the same order, which are the ones the caller expects,
\* and insert and erase return iterators at the same position in both.
C12_SameBehaviour ==
    BothAlive =>
        /\ lst["a"].size_ = lst["b"].size_
        /\ Forward(World, "a") = Forward(World, "b")
        /\ Reverse(World, "a") = Reverse(World, "b")
        /\ Forward(World, "b") = content["b"]
        /\ Len(Forward(World, "b")) = lst["b"].size_
        /\ call.op \in {"insert", "erase"} =>
              PositionOf(World, "a", call.ret[1]) =
              PositionOf(World, "b", call.ret[2])

\* push_back has just put a third element on both lists, and in b on a block
\* that an erased node released: its address is below that of an older node
C12_Witness ==
    /\ BothAlive
    /\ call.op = "push_back"
    /\ lst["b"].size_ = 3
    /\ Range(ChainNext(World, "b")) \subseteq FastAddr
    /\ Range(ChainNext(World, "a")) \subseteq Addr
    /\ prev[lst["b"].end_] < prev[prev[lst["b"].end_]]

\* C13: ~List() releases every live node, the last element first, and only
\* then the front and the back sentinel: the list held size() + 2 nodes,
\* each is released exactly once, and none is outstanding afterwards (the
\* pool of b has every block it ever cut on its free list, once; nothing of
\* a is left in the heap) and no element is left constructed.
C13_Step ==
    call'.op = "~List" =>
        LET P == allocator_[NodeSize][1]
            Q == allocator_'[NodeSize][1]
            live == Nodes(World, "b")
            gone == [i \in 1..Len(live) |-> BlockAt(Rev(live)[i])]
        IN  /\ Len(live) = lst["b"].size_
            /\ Cardinality(allocated \cap FastAddr) = lst["b"].size_ + 2
            /\ Cardinality(allocated \cap Addr) = lst["a"].size_ + 2
            /\ Q.returned_ = P.returned_ \o gone \o
                  <<BlockAt(lst["b"].begin_), BlockAt(lst["b"].end_)>>
            /\ Cardinality(Range(Q.returned_)) = Len(Q.returned_)
            /\ Len(Q.returned_) = Cut(Q)
            /\ Q.chunks_ = P.chunks_ /\ Q.size_ = P.size_
            /\ allocated' = {}
            /\ \A p \in DOMAIN elem_ : elem_'[p] = NoElem
            /\ ~lst'["a"].alive /\ ~lst'["b"].alive

C13_DestroyReleasesAll == [][C13_Step]_vars

\* both lists were destroyed; the pool has cut five blocks, the most two
\* sentinels and three elements need, and all five are on its free list
C13_Witness ==
    /\ call.op = "~List"
    /\ lst["a"].ended /\ lst["b"].ended
    /\ allocated = {}
    /\ Len(allocator_[NodeSize][1].returned_) = MaxSubSize + 2

=============================================================================
